---- MODULE Spec2Model ----
(***************************************************************************)
(* The Flask application of src/app.py: the WhatsApp webhook (verification *)
(* handshake and inbound message delivery through the retrieval-augmented  *)
(* chat pipeline), the file upload and delete handlers, and the two        *)
(* read-only handlers.  One request is handled at a time; every call to an *)
(* external service (Supabase, Pinecone, R2R, WhatsApp) either succeeds or *)
(* raises.                                                                 *)
(***************************************************************************)
EXTENDS Integers, Sequences, FiniteSets, TLC

\* ------------------------------------------------------------------ bounds
\* Inbound message elements plus uploaded files taken over a whole run.
MaxWork == 2
\* Chunks the documents API returns for one document: 0..MaxChunks.
MaxChunks == 2

\* ------------------------------------------------------ program constants
\* .limit(10) of the chat history query.
HistoryLimit == 10
\* os.getenv("WHATSAPP_VERIFY_TOKEN"): the token the deployment configures.
WA_VERIFY_TOKEN == "secret"
\* A query argument or JSON field that is not there (Python's None).
Absent == "<absent>"

Senders == {"n1", "n2"}
Bodies == {"hi"}
AckText == "Message received. Processing..."
ApologyText == "Sorry, an error occurred while processing your message."
\* The completion the LLM returns for a prompt.
AiText == "answer"

\* ------------------------------------------------------------------ inputs
\* Elements of the "messages" lists of a webhook payload, flattened over its
\* entries and changes in iteration order.  The last two are a non-text
\* message and a message of type text that carries no "from" field.
TextMessages == [type : {"text"}, from : Senders, body : Bodies]
NonTextMessage == [type |-> "image", from |-> "n1", body |-> Absent]
MalformedMessage == [type |-> "text", from |-> Absent, body |-> "hi"]
InboundMessages == TextMessages \cup {NonTextMessage, MalformedMessage}

RECURSIVE SeqsUpTo(_, _)
SeqsUpTo(S, n) ==
    IF n = 0 THEN {<<>>}
    ELSE LET shorter == SeqsUpTo(S, n - 1)
         IN shorter \cup {Append(s, x) : s \in {t \in shorter : Len(t) = n - 1}, x \in S}

VARIABLES
    pc,          \* position of the handler in flight; "done" once it has answered
    req,         \* the request in flight
    idx,         \* loop index into the request's messages or files
    resp,        \* the HTTP response of the last finished request
    messages,    \* Supabase table "messages", in insertion order
    documents,   \* Supabase table "documents", in insertion order
    index,       \* ids of the vectors held by the Pinecone index
    uploads,     \* temporary files present in UPLOAD_FOLDER
    cur,         \* external calls made for the current message or file
    handled,     \* per request: which payload position was acknowledged or processed, in order
    results,     \* the results list of upload_files
    loc,         \* locals of the handler in flight
    work,        \* message elements and files taken so far
    inbox,       \* every text message taken from a payload, in order
    outbox,      \* every send attempted through the WhatsApp API, in order
    anyFail,     \* whether an external call has raised so far
    deleted      \* ids for which DELETE /files/<id> has answered 200

vars == <<pc, req, idx, resp, messages, documents, index, uploads, cur, handled,
          results, loc, work, inbox, outbox, anyFail, deleted>>

NoReq == [kind |-> "none"]
NoResp == [status |-> 0, body |-> "none", data |-> <<>>]
NoLoc == [chat_history |-> <<>>, prompt |-> <<>>, ai_response |-> Absent,
          document_id |-> 0, chunks |-> 0, temp_path |-> 0, docs |-> <<>>]

Init ==
    /\ pc = "idle"
    /\ req = NoReq
    /\ idx = 0
    /\ resp = NoResp
    /\ messages = <<>>
    /\ documents = <<>>
    /\ index = {}
    /\ uploads = {}
    /\ cur = <<>>
    /\ handled = <<>>
    /\ results = <<>>
    /\ loc = NoLoc
    /\ work = 0
    /\ inbox = <<>>
    /\ outbox = <<>>
    /\ anyFail = FALSE
    /\ deleted = {}

persistent == <<messages, documents, index, uploads, work, inbox, outbox, anyFail,
                deleted>>

\* ------------------------------------------------------------- responses
Response(status, body) == [status |-> status, body |-> body, data |-> <<>>]
ResponseData(status, body, data) == [status |-> status, body |-> body, data |-> data]

\* The outermost "except Exception" of a handler: jsonify({"error": str(e)}), 500.
OuterErrorAs200 == Response(200, "error")
OuterError == Response(500, "error")

\* A request arrives: the transient state of the previous one is dropped.
Begin(r, trace) ==
    /\ pc = "idle"
    /\ req' = r
    /\ idx' = 1
    /\ cur' = trace
    /\ handled' = <<>>
    /\ results' = <<>>
    /\ loc' = NoLoc

\* The response has gone out: the handler's frame is dropped and the worker
\* waits for the next request.
Return ==
    /\ pc = "done"
    /\ pc' = "idle"
    /\ req' = NoReq
    /\ idx' = 0
    /\ resp' = NoResp
    /\ cur' = <<>>
    /\ handled' = <<>>
    /\ results' = <<>>
    /\ loc' = NoLoc
    /\ UNCHANGED persistent

\* One external call's outcome, noted in the trace of the current unit.
Call(op, ok) ==
    /\ cur' = Append(cur, [op |-> op, ok |-> ok])
    /\ anyFail' = (anyFail \/ ~ok)

\* ------------------------------------------------- GET /whatsapp handshake
Truthy(v) == v # Absent /\ v # ""

HandshakeResponseNoToken(mode, token, challenge) ==
    IF Truthy(mode) /\ Truthy(token)
    THEN IF mode = "subscribe"
         THEN IF Truthy(challenge)
              THEN Response(200, challenge)
              ELSE Response(400, "No challenge found")
         ELSE Response(403, "Invalid verification token")
    ELSE Response(400, "Invalid parameters")

HandshakeResponse(mode, token, challenge) ==
    IF Truthy(mode) /\ Truthy(token)
    THEN IF mode = "subscribe" /\ token = WA_VERIFY_TOKEN
         THEN IF Truthy(challenge)
              THEN Response(200, challenge)
              ELSE Response(400, "No challenge found")
         ELSE Response(403, "Invalid verification token")
    ELSE Response(400, "Invalid parameters")

Modes == {Absent, "subscribe", "unsubscribe"}
Tokens == {"", WA_VERIFY_TOKEN, "guess"}
Challenges == {Absent, "c42"}

WebhookGet ==
    \E mode \in Modes, token \in Tokens, challenge \in Challenges :
        /\ Begin([kind |-> "GET /whatsapp", mode |-> mode, token |-> token,
                  challenge |-> challenge], <<>>)
        /\ resp' = HandshakeResponse(mode, token, challenge)
        /\ pc' = "done"
        /\ UNCHANGED persistent

\* ------------------------------------------------ POST /whatsapp delivery
\* request.json: not JSON at all, JSON of another object type, or a
\* whatsapp_business_account notification carrying messages.
PostBodies(budget) ==
    {[json |-> "invalid", messages |-> <<>>], [json |-> "other", messages |-> <<>>]}
    \cup [json : {"whatsapp_business_account"}, messages : SeqsUpTo(InboundMessages, budget)]

WebhookPost ==
    \E body \in PostBodies(MaxWork - work) :
        /\ Begin([kind |-> "POST /whatsapp", json |-> body.json,
                  messages |-> body.messages], <<>>)
        /\ work' = work + Len(body.messages)
        /\ IF body.json = "invalid"
           THEN resp' = OuterError /\ pc' = "done"
           ELSE IF body.json = "other"
           THEN resp' = Response(200, "status success") /\ pc' = "done"
           ELSE resp' = NoResp /\ pc' = "next_msg"
        /\ UNCHANGED <<messages, documents, index, uploads, inbox, outbox, anyFail,
                     deleted>>

\* Where the webhook goes after the acknowledgment send returned or raised.
AfterAckSkip(ok) == IF ok THEN "store_user" ELSE "except_rag"
AfterAck(ok) == "store_user"

\* The steps of process_message, in the order of its body.
PcAfter(p) ==
    CASE p = "store_user" -> "history"
      [] p = "history" -> "embed"
      [] p = "embed" -> "query"
      [] p = "query" -> "llm"
      [] p = "llm" -> "store_reply"
      [] p = "store_reply" -> "send_reply"

\* A step of process_message raised: "except Exception: raise" hands the
\* exception to the webhook's "except" around the processing.
ProcRaiseSwallowInsert(p) == IF p = "store_user" THEN "history" ELSE "except_rag"
ProcRaiseSwallowLlm(p) == IF p = "llm" THEN "store_reply" ELSE "except_rag"
ProcRaise(p) == "except_rag"

\* Where the webhook goes after the send of the AI reply returned or raised.
AfterReplyAlwaysApology(ok) == "except_rag"
AfterReply(ok) == IF ok THEN "next_msg" ELSE "except_rag"

Msg == req.messages[idx]

UserRowShared(from, text, ts) ==
    [session_id |-> "shared", role |-> "user", content |-> text, timestamp |-> ts]
UserRow(from, text, ts) ==
    [session_id |-> from, role |-> "user", content |-> text, timestamp |-> ts]
AssistantRow(from, text, ts) ==
    [session_id |-> from, role |-> "assistant", content |-> text, timestamp |-> ts]

\* datetime.utcnow() at an insert: later than every stored timestamp.
Now == Len(messages) + 1

\* supabase.table(t).insert(row).execute()
InsertDedup(table, row) ==
    IF \E i \in 1..Len(table) : /\ table[i].session_id = row.session_id
                                /\ table[i].role = row.role
                                /\ table[i].content = row.content
    THEN table ELSE Append(table, row)
Insert(table, row) == Append(table, row)

RECURSIVE OrderDesc(_)
\* .order("timestamp", desc=True) over a list of rows.
OrderDesc(rows) ==
    IF rows = <<>> THEN <<>>
    ELSE LET top == CHOOSE i \in 1..Len(rows) :
                        \A j \in 1..Len(rows) : rows[j].timestamp <= rows[i].timestamp
             rest == [k \in 1..(Len(rows) - 1) |-> IF k < top THEN rows[k] ELSE rows[k + 1]]
         IN <<rows[top]>> \o OrderDesc(rest)

Limit(rows, n) == IF Len(rows) <= n THEN rows ELSE SubSeq(rows, 1, n)
Reversed(s) == [i \in 1..Len(s) |-> s[Len(s) + 1 - i]]

\* select("*").eq("session_id", from_number).order("timestamp", desc).limit(10)
ChatHistoryAllSessions(table, from) == Limit(OrderDesc(table), HistoryLimit)
ChatHistory(table, from) ==
    Limit(OrderDesc(SelectSeq(table, LAMBDA r : r.session_id = from)), HistoryLimit)

\* The "messages" list posted to the chat completions endpoint.
Prompt(context, history, text) ==
    <<[role |-> "system", content |-> context]>>
    \o [i \in 1..Len(history) |->
           [role |-> Reversed(history)[i].role, content |-> Reversed(history)[i].content]]
    \o <<[role |-> "user", content |-> text]>>

NextMsg ==
    /\ pc = "next_msg"
    /\ IF idx > Len(req.messages)
       THEN /\ resp' = Response(200, "status success")
            /\ pc' = "done"
            /\ UNCHANGED <<idx, cur, loc, inbox>>
       ELSE IF Msg.type # "text"
       THEN /\ idx' = idx + 1
            /\ UNCHANGED <<pc, resp, cur, loc, inbox>>
       ELSE IF Msg.from = Absent \/ Msg.body = Absent
       THEN /\ resp' = OuterError
            /\ pc' = "done"
            /\ UNCHANGED <<idx, cur, loc, inbox>>
       ELSE /\ pc' = "ack"
            /\ cur' = <<>>
            /\ loc' = NoLoc
            /\ inbox' = Append(inbox, [from |-> Msg.from, body |-> Msg.body])
            /\ UNCHANGED <<idx, resp>>
    /\ UNCHANGED <<req, handled, results, messages, documents, index, uploads,
                   work, outbox, anyFail, deleted>>

Send(text) == outbox' = Append(outbox, [to |-> Msg.from, text |-> text])

Ack ==
    /\ pc = "ack"
    /\ \E ok \in BOOLEAN :
        /\ Call("ack", ok)
        /\ Send(AckText)
        /\ handled' = Append(handled, [at |-> idx, op |-> "ack"])
        /\ pc' = AfterAck(ok)
    /\ UNCHANGED <<req, idx, resp, results, loc, messages, documents, index, uploads,
                   work, inbox, deleted>>

StoreUser ==
    /\ pc = "store_user"
    /\ \E ok \in BOOLEAN :
        /\ Call("insert_user", ok)
        /\ messages' = IF ok THEN Insert(messages, UserRow(Msg.from, Msg.body, Now))
                       ELSE messages
        /\ handled' = Append(handled, [at |-> idx, op |-> "process"])
        /\ pc' = IF ok THEN PcAfter(pc) ELSE ProcRaise(pc)
    /\ UNCHANGED <<req, idx, resp, results, loc, documents, index, uploads,
                   work, inbox, outbox, deleted>>

History ==
    /\ pc = "history"
    /\ \E ok \in BOOLEAN :
        /\ Call("select_history", ok)
        /\ loc' = IF ok THEN [loc EXCEPT !.chat_history = ChatHistory(messages, Msg.from)]
                  ELSE loc
        /\ pc' = IF ok THEN PcAfter(pc) ELSE ProcRaise(pc)
    /\ UNCHANGED <<req, idx, resp, handled, results, messages, documents, index,
                   uploads, work, inbox, outbox, deleted>>

Embed ==
    /\ pc = "embed"
    /\ \E ok \in BOOLEAN :
        /\ Call("embed", ok)
        /\ pc' = IF ok THEN PcAfter(pc) ELSE ProcRaise(pc)
    /\ UNCHANGED <<req, idx, resp, handled, results, loc, messages, documents, index,
                   uploads, work, inbox, outbox, deleted>>

Query ==
    /\ pc = "query"
    /\ \E ok \in BOOLEAN :
        /\ Call("query", ok)
        /\ pc' = IF ok THEN PcAfter(pc) ELSE ProcRaise(pc)
    /\ UNCHANGED <<req, idx, resp, handled, results, loc, messages, documents, index,
                   uploads, work, inbox, outbox, deleted>>

Llm ==
    /\ pc = "llm"
    /\ \E ok \in BOOLEAN :
        /\ Call("llm", ok)
        /\ loc' = IF ok
                  THEN [loc EXCEPT !.prompt = Prompt("context", loc.chat_history, Msg.body),
                                   !.ai_response = AiText]
                  ELSE [loc EXCEPT !.prompt = Prompt("context", loc.chat_history, Msg.body)]
        /\ pc' = IF ok THEN PcAfter(pc) ELSE ProcRaise(pc)
    /\ UNCHANGED <<req, idx, resp, handled, results, messages, documents, index,
                   uploads, work, inbox, outbox, deleted>>

StoreReply ==
    /\ pc = "store_reply"
    /\ \E ok \in BOOLEAN :
        /\ Call("insert_assistant", ok)
        /\ messages' = IF ok
                       THEN Insert(messages, AssistantRow(Msg.from, loc.ai_response, Now))
                       ELSE messages
        /\ pc' = IF ok THEN PcAfter(pc) ELSE ProcRaise(pc)
    /\ UNCHANGED <<req, idx, resp, handled, results, loc, documents, index, uploads,
                   work, inbox, outbox, deleted>>

SendReply ==
    /\ pc = "send_reply"
    /\ \E ok \in BOOLEAN :
        /\ Call("send_reply", ok)
        /\ Send(loc.ai_response)
        /\ pc' = AfterReply(ok)
        /\ idx' = IF AfterReply(ok) = "next_msg" THEN idx + 1 ELSE idx
    /\ UNCHANGED <<req, resp, handled, results, loc, messages, documents, index,
                   uploads, work, inbox, deleted>>

ExceptRag ==
    /\ pc = "except_rag"
    /\ \E ok \in BOOLEAN :
        /\ Call("apology", ok)
        /\ Send(ApologyText)
        /\ pc' = "next_msg"
        /\ idx' = idx + 1
    /\ UNCHANGED <<req, resp, handled, results, loc, messages, documents, index,
                   uploads, work, inbox, deleted>>

\* ------------------------------------------------------ POST /upload-files
\* File names, a character at a time.
FileNames ==
    { <<"a", ".", "p", "d", "f">>,
      <<"B", ".", "T", "X", "T">>,
      <<"c", ".", "e", "x", "e">>,
      <<"t", "x", "t">>,
      <<>> }

ALLOWED_EXTENSIONS ==
    { <<"t", "x", "t">>, <<"p", "d", "f">>, <<"d", "o", "c">>,
      <<"d", "o", "c", "x">>, <<"c", "s", "v">> }

\* str.lower() on the characters that occur in FileNames.
LowerChar(c) ==
    CASE c = "B" -> "b"
      [] c = "T" -> "t"
      [] c = "X" -> "x"
      [] OTHER -> c
Lower(s) == [i \in 1..Len(s) |-> LowerChar(s[i])]

HasDot(s) == \E i \in 1..Len(s) : s[i] = "."
\* filename.rsplit('.', 1)[1]: what follows the last dot.
AfterLastDot(s) ==
    LET last == CHOOSE i \in 1..Len(s) :
                    s[i] = "." /\ \A j \in (i + 1)..Len(s) : s[j] # "."
    IN SubSeq(s, last + 1, Len(s))

allowed_file_case_sensitive(filename) ==
    HasDot(filename) /\ AfterLastDot(filename) \in ALLOWED_EXTENSIONS
allowed_file(filename) ==
    HasDot(filename) /\ Lower(AfterLastDot(filename)) \in ALLOWED_EXTENSIONS

\* filename.endswith('.pdf')
IsPdf(s) == Len(s) >= 4 /\ SubSeq(s, Len(s) - 3, Len(s)) = <<".", "p", "d", "f">>

\* f"{document_id}-chunk-{i}" for i, chunk in enumerate(chunks_data)
VectorId(document_id, i) == <<document_id, "chunk", i>>
VectorIdsFromOne(document_id, n) == [k \in 1..n |-> VectorId(document_id, k)]
VectorIds(document_id, n) == [k \in 1..n |-> VectorId(document_id, k - 1)]

Range(s) == {s[i] : i \in 1..Len(s)}

File == req.files[idx]
\* The id the documents API gives the file's document: fresh for every ingest.
FreshDocumentId == req.base + idx
\* os.path.join(UPLOAD_FOLDER, md5(filename + utcnow)): a path of the file's own.
TempPath == req.base + idx

UploadBodies(budget) ==
    {[has_files |-> FALSE, files |-> <<>>]}
    \cup [has_files : {TRUE}, files : SeqsUpTo(FileNames, budget)]

UploadFiles ==
    \E body \in UploadBodies(MaxWork - work) :
        /\ Begin([kind |-> "POST /upload-files", has_files |-> body.has_files,
                  files |-> body.files, base |-> work], <<>>)
        /\ work' = work + Len(body.files)
        /\ IF body.has_files
           THEN resp' = NoResp /\ pc' = "next_file"
           ELSE resp' = Response(400, "error") /\ pc' = "done"
        /\ UNCHANGED <<messages, documents, index, uploads, inbox, outbox, anyFail,
                     deleted>>

NextFile ==
    /\ pc = "next_file"
    /\ IF idx > Len(req.files)
       THEN /\ resp' = ResponseData(200, "Files processed", results)
            /\ pc' = "done"
            /\ UNCHANGED <<idx, cur, loc>>
       ELSE IF File # <<>> /\ allowed_file(File)
       THEN /\ pc' = "save"
            /\ cur' = <<>>
            /\ loc' = NoLoc
            /\ UNCHANGED <<idx, resp>>
       ELSE /\ idx' = idx + 1
            /\ UNCHANGED <<pc, resp, cur, loc>>
    /\ UNCHANGED <<req, handled, results, persistent>>

\* file.save(temp_path); a save that raises may leave a partial file behind.
Save ==
    /\ pc = "save"
    /\ \E ok \in BOOLEAN, written \in BOOLEAN :
        /\ ok => written
        /\ Call("save", ok)
        /\ loc' = [loc EXCEPT !.temp_path = TempPath]
        /\ uploads' = IF written THEN uploads \cup {TempPath} ELSE uploads
        /\ pc' = IF ok THEN "extract" ELSE "except_file"
    /\ UNCHANGED <<req, idx, resp, handled, results, messages, documents, index,
                   work, inbox, outbox, deleted>>

\* Reading the saved file; only the PyPDF2 branch can raise.
Extract ==
    /\ pc = "extract"
    /\ \E ok \in BOOLEAN :
        /\ ~ok => IsPdf(File)
        /\ Call("extract", ok)
        /\ pc' = IF ok THEN "ingest" ELSE "except_file"
    /\ UNCHANGED <<req, idx, resp, handled, results, loc, messages, documents, index,
                   uploads, work, inbox, outbox, deleted>>

Ingest ==
    /\ pc = "ingest"
    /\ \E ok \in BOOLEAN :
        /\ Call("ingest", ok)
        /\ loc' = IF ok THEN [loc EXCEPT !.document_id = FreshDocumentId] ELSE loc
        /\ pc' = IF ok THEN "chunks" ELSE "except_file"
    /\ UNCHANGED <<req, idx, resp, handled, results, messages, documents, index,
                   uploads, work, inbox, outbox, deleted>>

Chunks ==
    /\ pc = "chunks"
    /\ \E ok \in BOOLEAN, n \in 0..MaxChunks :
        /\ ~ok => n = 0
        /\ Call("chunks", ok)
        /\ loc' = IF ok THEN [loc EXCEPT !.chunks = n] ELSE loc
        /\ pc' = IF ok THEN "upsert" ELSE "except_file"
    /\ UNCHANGED <<req, idx, resp, handled, results, messages, documents, index,
                   uploads, work, inbox, outbox, deleted>>

\* The document row is written once the upsert returned.
AfterUpsertRegardless(ok) == "insert_doc"
AfterUpsert(ok) == IF ok THEN "insert_doc" ELSE "except_file"

Upsert ==
    /\ pc = "upsert"
    /\ \E ok \in BOOLEAN :
        /\ Call("upsert", ok)
        /\ index' = IF ok THEN index \cup Range(VectorIds(loc.document_id, loc.chunks))
                    ELSE index
        /\ pc' = AfterUpsert(ok)
    /\ UNCHANGED <<req, idx, resp, handled, results, loc, messages, documents,
                   uploads, work, inbox, outbox, deleted>>

\* doc_data: the row of one uploaded document, listing its vector ids.
DocRowNoVectorIds(document_id, name, n) ==
    [id |-> document_id, name |-> name, vector_ids |-> <<>>, num_chunks |-> n]
DocRow(document_id, name, n) ==
    [id |-> document_id, name |-> name, vector_ids |-> VectorIds(document_id, n),
     num_chunks |-> n]

InsertDoc ==
    /\ pc = "insert_doc"
    /\ \E ok \in BOOLEAN :
        /\ Call("insert_doc", ok)
        /\ documents' = IF ok
                        THEN Append(documents, DocRow(loc.document_id, File, loc.chunks))
                        ELSE documents
        /\ pc' = IF ok THEN "file_done" ELSE "except_file"
    /\ UNCHANGED <<req, idx, resp, handled, results, loc, messages, index,
                   uploads, work, inbox, outbox, deleted>>

\* os.remove(temp_path) when temp_path is set and the file exists.
CleanedNever(files, temp_path) == files
Cleaned(files, temp_path) == files \ {temp_path}

SuccessEntry ==
    [name |-> File, status |-> "success", id |-> loc.document_id,
     num_chunks |-> loc.chunks, vector_ids |-> VectorIds(loc.document_id, loc.chunks)]
ErrorEntry ==
    [name |-> File, status |-> "error", id |-> 0, num_chunks |-> 0, vector_ids |-> <<>>]

FileDone ==
    /\ pc = "file_done"
    /\ uploads' = Cleaned(uploads, loc.temp_path)
    /\ results' = Append(results, SuccessEntry)
    /\ idx' = idx + 1
    /\ pc' = "next_file"
    /\ UNCHANGED <<req, resp, cur, handled, loc, messages, documents, index, work,
                   inbox, outbox, anyFail, deleted>>

ExceptFile ==
    /\ pc = "except_file"
    /\ results' = Append(results, ErrorEntry)
    /\ uploads' = Cleaned(uploads, loc.temp_path)
    /\ idx' = idx + 1
    /\ pc' = "next_file"
    /\ UNCHANGED <<req, resp, cur, handled, loc, messages, documents, index, work,
                   inbox, outbox, anyFail, deleted>>

\* ------------------------------------------------------ DELETE /files/<id>
\* The two deletions of delete_file, in the order of its body.
DeletePlanRowFirst == <<"del_row", "del_vectors">>
DeletePlan == <<"del_vectors", "del_row">>

DocsWithId(table, file_id) == SelectSeq(table, LAMBDA d : d.id = file_id)
\* supabase.table("documents").delete().eq("id", file_id)
WithoutId(table, file_id) == SelectSeq(table, LAMBDA d : d.id # file_id)

DeleteFile ==
    \E file_id \in 1..MaxWork :
        /\ Begin([kind |-> "DELETE /files", file_id |-> file_id,
                  again |-> file_id \in deleted], <<>>)
        /\ resp' = NoResp
        /\ pc' = "del_lookup"
        /\ UNCHANGED persistent

DelLookup ==
    /\ pc = "del_lookup"
    /\ \E ok \in BOOLEAN :
        /\ Call("select_doc", ok)
        /\ loc' = IF ok THEN [loc EXCEPT !.docs = DocsWithId(documents, req.file_id)]
                  ELSE loc
        /\ IF ~ok
           THEN resp' = OuterError /\ pc' = "done"
           ELSE IF DocsWithId(documents, req.file_id) = <<>>
           THEN resp' = Response(404, "error") /\ pc' = "done"
           ELSE resp' = resp /\ pc' = DeletePlan[1]
    /\ UNCHANGED <<req, idx, handled, results, messages, documents, index, uploads,
                   work, inbox, outbox, deleted>>

AfterDelete(p, ok) ==
    IF ~ok THEN "failed" ELSE IF p = DeletePlan[1] THEN DeletePlan[2] ELSE "deleted"

DelFinish(p, ok) ==
    /\ deleted' = IF AfterDelete(p, ok) = "deleted" THEN deleted \cup {req.file_id}
                  ELSE deleted
    /\ resp' = IF AfterDelete(p, ok) = "failed" THEN OuterError
               ELSE IF AfterDelete(p, ok) = "deleted"
               THEN Response(200, "Document deleted successfully")
               ELSE resp
    /\ pc' = IF AfterDelete(p, ok) \in {"failed", "deleted"} THEN "done"
             ELSE AfterDelete(p, ok)

DelVectors ==
    /\ pc = "del_vectors"
    /\ \E ok \in BOOLEAN :
        /\ Call("delete_vectors", ok)
        /\ index' = IF ok THEN index \ Range(loc.docs[1].vector_ids) ELSE index
        /\ DelFinish(pc, ok)
    /\ UNCHANGED <<req, idx, handled, results, loc, messages, documents, uploads,
                   work, inbox, outbox>>

DelRow ==
    /\ pc = "del_row"
    /\ \E ok \in BOOLEAN :
        /\ Call("delete_doc", ok)
        /\ documents' = IF ok THEN WithoutId(documents, req.file_id) ELSE documents
        /\ DelFinish(pc, ok)
    /\ UNCHANGED <<req, idx, handled, results, loc, messages, index, uploads,
                   work, inbox, outbox>>

\* ------------------------------------------- GET /files, GET /test-pinecone
GetFiles ==
    \E ok \in BOOLEAN :
        /\ Begin([kind |-> "GET /files"], <<[op |-> "select_docs", ok |-> ok]>>)
        /\ anyFail' = (anyFail \/ ~ok)
        /\ resp' = IF ok THEN ResponseData(200, "documents", documents) ELSE OuterError
        /\ pc' = "done"
        /\ UNCHANGED <<messages, documents, index, uploads, work, inbox, outbox,
                     deleted>>

\* describe_index_stats(), then query(): the first that raises ends the handler.
PineconeTraces ==
    { <<[op |-> "stats", ok |-> FALSE]>>,
      <<[op |-> "stats", ok |-> TRUE], [op |-> "query", ok |-> FALSE]>>,
      <<[op |-> "stats", ok |-> TRUE], [op |-> "query", ok |-> TRUE]>> }

TestPinecone ==
    \E trace \in PineconeTraces :
        /\ Begin([kind |-> "GET /test-pinecone"], trace)
        /\ anyFail' = (anyFail \/ ~trace[Len(trace)].ok)
        /\ resp' = IF trace[Len(trace)].ok
                   THEN ResponseData(200, "status success", index)
                   ELSE OuterError
        /\ pc' = "done"
        /\ UNCHANGED <<messages, documents, index, uploads, work, inbox, outbox,
                     deleted>>

Next ==
    \/ WebhookGet
    \/ WebhookPost
    \/ NextMsg
    \/ Ack
    \/ StoreUser
    \/ History
    \/ Embed
    \/ Query
    \/ Llm
    \/ StoreReply
    \/ SendReply
    \/ ExceptRag
    \/ UploadFiles
    \/ NextFile
    \/ Save
    \/ Extract
    \/ Ingest
    \/ Chunks
    \/ Upsert
    \/ InsertDoc
    \/ FileDone
    \/ ExceptFile
    \/ DeleteFile
    \/ DelLookup
    \/ DelVectors
    \/ DelRow
    \/ GetFiles
    \/ TestPinecone
    \/ Return

Spec == Init /\ [][Next]_vars

\* =================================================================== claims
Failed(trace) == \E i \in 1..Len(trace) : ~trace[i].ok
Has(trace, op) == \E i \in 1..Len(trace) : trace[i].op = op
HasOk(trace, op) == \E i \in 1..Len(trace) : trace[i].op = op /\ trace[i].ok
HasFailed(trace, op) == \E i \in 1..Len(trace) : trace[i].op = op /\ ~trace[i].ok
CountIn(s, P(_)) == Cardinality({i \in 1..Len(s) : P(s[i])})
IsErrorResponse(r) == r.status = 500 /\ r.body = "error"

\* A webhook POST meets a message of type text without its "from" or
\* "text.body" field: the KeyError is raised outside the per-message try blocks.
IsMalformed(m) == m.type = "text" /\ (m.from = Absent \/ m.body = Absent)
EscapesWebhook ==
    \/ req.json = "invalid"
    \/ idx \in 1..Len(req.messages) /\ IsMalformed(req.messages[idx])

C2_Table ==
    (pc = "done" /\ req.kind = "GET /whatsapp") =>
        LET present(v) == v \notin {Absent, ""}
            verified == req.mode = "subscribe" /\ req.token = WA_VERIFY_TOKEN
        IN /\ (resp.status = 200 /\ resp.body = req.challenge)
                  <=> (verified /\ present(req.challenge))
           /\ resp.status = 200 => resp.body = req.challenge
           /\ ~(present(req.mode) /\ present(req.token)) => resp.status = 400
           /\ (present(req.mode) /\ present(req.token) /\ ~verified) => resp.status = 403
           /\ (verified /\ ~present(req.challenge)) => resp.status = 400
           /\ cur = <<>>

C2_Handshake ==
    /\ []C2_Table
    /\ [][(pc = "idle" /\ req'.kind = "GET /whatsapp")
              => (messages' = messages /\ outbox' = outbox /\ pc' = "done")]_vars

\* A handshake that is verified and answered with its challenge.
C2_Witness ==
    /\ pc = "done"
    /\ req.kind = "GET /whatsapp"
    /\ req.token = WA_VERIFY_TOKEN
    /\ resp.status = 200
    /\ resp.body = "c42"
    /\ messages # <<>>

\* The calls of process_message in the trace of the current message.
ProcOrder == <<"insert_user", "select_history", "embed", "query", "llm", "insert_assistant">>
ProcTrace ==
    SelectSeq(cur, LAMBDA e : e.op \in {ProcOrder[i] : i \in 1..Len(ProcOrder)})
\* A message is being handled (idx is its position), or has just been.
InMessage ==
    pc \in {"ack", "store_user", "history", "embed", "query", "llm", "store_reply",
            "send_reply", "except_rag"}
InChat ==
    \/ InMessage
    \/ (pc \in {"next_msg", "done"} /\ req.kind = "POST /whatsapp" /\ Has(cur, "ack"))

\* C3: process_message stores the user message, fetches the history, embeds
\* the query, queries the index, calls the LLM, stores the reply and returns
\* it, in this order and each at most once; the reply is stored and returned
\* only after the LLM call succeeded; a step that fails is the last step, and
\* its exception reaches the caller's except block.
C3_PipelineOrder ==
    InChat =>
        /\ Len(ProcTrace) <= Len(ProcOrder)
        /\ \A i \in 1..Len(ProcTrace) : ProcTrace[i].op = ProcOrder[i]
        /\ \A i \in 1..(Len(ProcTrace) - 1) : ProcTrace[i].ok
        /\ HasOk(cur, "insert_assistant") => HasOk(cur, "llm")
        /\ Has(cur, "send_reply")
              => (Len(ProcTrace) = Len(ProcOrder) /\ ~Failed(ProcTrace))
        /\ pc = "send_reply" => (Len(ProcTrace) = Len(ProcOrder) /\ ~Failed(ProcTrace))
        /\ Failed(ProcTrace)
              => /\ ~Has(cur, "send_reply")
                 /\ pc = "except_rag" \/ Has(cur, "apology")
        /\ pc = "store_reply" => (loc.ai_response = AiText /\ HasOk(cur, "llm"))

\* The LLM call fails: nothing of the reply is stored, the caller apologises.
C3_Witness ==
    /\ pc = "next_msg"
    /\ HasFailed(cur, "llm")
    /\ Has(cur, "apology")
    /\ Len(ProcTrace) = 5
    /\ Len(messages) = 1

\* f"{document_id}-chunk-{i}", i = 0..n-1, as the claim spells it.
ExpectedVectorIds(id, n) == [k \in 1..n |-> <<id, "chunk", k - 1>>]
UploadOrder == <<"ingest", "chunks", "upsert", "insert_doc">>
UploadTrace ==
    SelectSeq(cur, LAMBDA e : e.op \in {UploadOrder[i] : i \in 1..Len(UploadOrder)})
InFile ==
    pc \in {"save", "extract", "ingest", "chunks", "upsert", "insert_doc", "file_done",
            "except_file"}

\* C4: for a file with an allowed extension upload_files ingests, retrieves
\* the chunks, upserts the vectors and inserts the document row, in this
\* order; the row is inserted only after the upsert succeeded; the row lists
\* exactly the ids upserted, "<document_id>-chunk-<i>" for i = 0..n-1, with
\* num_chunks = n, and the file's result entry reports the same ids.
C4_UploadOrder ==
    /\ InFile =>
        /\ Len(UploadTrace) <= Len(UploadOrder)
        /\ \A i \in 1..Len(UploadTrace) : UploadTrace[i].op = UploadOrder[i]
        /\ \A i \in 1..(Len(UploadTrace) - 1) : UploadTrace[i].ok
        /\ Has(cur, "insert_doc") => HasOk(cur, "upsert")
    /\ pc \in {"insert_doc", "file_done"} =>
        Range(ExpectedVectorIds(loc.document_id, loc.chunks)) \subseteq index
    /\ pc = "file_done" =>
        /\ documents # <<>>
        /\ documents[Len(documents)].id = loc.document_id
        /\ documents[Len(documents)].vector_ids
              = ExpectedVectorIds(loc.document_id, loc.chunks)
        /\ documents[Len(documents)].num_chunks = loc.chunks
    /\ \A i \in 1..Len(documents) :
        /\ documents[i].vector_ids
              = ExpectedVectorIds(documents[i].id, documents[i].num_chunks)
        /\ \A j \in 1..Len(results) :
              (results[j].status = "success" /\ results[j].id = documents[i].id)
                  => /\ results[j].vector_ids = documents[i].vector_ids
                     /\ results[j].num_chunks = documents[i].num_chunks
    /\ \A j \in 1..Len(results) :
        results[j].status = "success"
            => /\ \E i \in 1..Len(documents) : documents[i].id = results[j].id
               /\ results[j].vector_ids
                     = ExpectedVectorIds(results[j].id, results[j].num_chunks)

\* A document of two chunks has been upserted, stored and reported.
C4_Witness ==
    /\ pc = "next_file"
    /\ results # <<>>
    /\ results[Len(results)].status = "success"
    /\ results[Len(results)].num_chunks = 2
    /\ \E i \in 1..Len(documents) :
          /\ documents[i].id = results[Len(results)].id
          /\ documents[i].vector_ids = <<<<documents[i].id, "chunk", 0>>,
                                         <<documents[i].id, "chunk", 1>>>>
          /\ Range(documents[i].vector_ids) \subseteq index

SessionRows(n, role) ==
    CountIn(messages, LAMBDA r : r.session_id = n /\ r.role = role)
SendsTo(n, text) == CountIn(outbox, LAMBDA o : o.to = n /\ o.text = text)
Deliveries(m) == CountIn(inbox, LAMBDA x : x = [from |-> m.from, body |-> m.body])
DeliveriesFrom(n) == CountIn(inbox, LAMBDA x : x.from = n)

\* C5: nothing is deduplicated.  While every external call has succeeded,
\* each delivery of a text message, the same one as before or not, has left
\* one user row and one assistant row in its sender's session and caused one
\* acknowledgment send and one AI reply send: a message delivered twice is
\* processed twice.
C5_NotIdempotent ==
    (~anyFail /\ pc \in {"idle", "done"}) =>
        /\ \A m \in TextMessages :
              Deliveries(m)
                  = CountIn(messages, LAMBDA r : /\ r.session_id = m.from
                                                 /\ r.role = "user"
                                                 /\ r.content = m.body)
        /\ \A n \in Senders :
              /\ SessionRows(n, "user") = DeliveriesFrom(n)
              /\ SessionRows(n, "assistant") = DeliveriesFrom(n)
              /\ SendsTo(n, AckText) = DeliveriesFrom(n)
              /\ SendsTo(n, AiText) = DeliveriesFrom(n)
              /\ SendsTo(n, ApologyText) = 0

\* The same message arrived in two POSTs and was processed both times.
C5_Witness ==
    /\ ~anyFail
    /\ pc = "done"
    /\ req.kind = "POST /whatsapp"
    /\ Len(req.messages) = 1
    /\ Len(inbox) = 2
    /\ inbox[1] = inbox[2]
    /\ SessionRows(inbox[1].from, "user") = 2
    /\ SessionRows(inbox[1].from, "assistant") = 2
    /\ SendsTo(inbox[1].from, AckText) = 2
    /\ SendsTo(inbox[1].from, AiText) = 2

Last(s) == s[Len(s)]

\* C6: sessions are keyed by the sender's number.  The rows written for a
\* message from N carry session_id = N, no session holds more rows than its
\* own sender's messages account for, and the history fetched for a message
\* from N, from which the prompt is built, holds rows of session N only,
\* whatever other senders' messages were handled before.
C6_SessionIsolation ==
    /\ InMessage =>
        /\ HasOk(cur, "insert_user") =>
              \E i \in 1..Len(messages) :
                  /\ messages[i].session_id = Msg.from
                  /\ messages[i].role = "user"
                  /\ messages[i].content = Msg.body
                  /\ \A j \in (i + 1)..Len(messages) :
                        messages[j].session_id = Msg.from /\ messages[j].role = "assistant"
        /\ (HasOk(cur, "insert_user") /\ ~Has(cur, "insert_assistant")) =>
              (Last(messages).session_id = Msg.from /\ Last(messages).role = "user")
        /\ HasOk(cur, "insert_assistant") =>
              (Last(messages).session_id = Msg.from /\ Last(messages).role = "assistant")
        /\ \A i \in 1..Len(loc.chat_history) :
              /\ loc.chat_history[i].session_id = Msg.from
              /\ \E j \in 1..Len(messages) : messages[j] = loc.chat_history[i]
        /\ HasOk(cur, "select_history") =>
              Len(loc.chat_history) = SessionRows(Msg.from, "user")
                  + SessionRows(Msg.from, "assistant")
                  - (IF HasOk(cur, "insert_assistant") THEN 1 ELSE 0)
        /\ Has(cur, "llm") =>
              /\ Len(loc.prompt) = Len(loc.chat_history) + 2
              /\ \A i \in 1..Len(loc.chat_history) :
                    /\ loc.prompt[i + 1].role
                          = loc.chat_history[Len(loc.chat_history) + 1 - i].role
                    /\ loc.prompt[i + 1].content
                          = loc.chat_history[Len(loc.chat_history) + 1 - i].content
    /\ \A i \in 1..Len(messages) : messages[i].session_id \in Senders
    /\ \A n \in Senders :
          /\ SessionRows(n, "user") <= DeliveriesFrom(n)
          /\ SessionRows(n, "assistant") <= SessionRows(n, "user")

\* A message from one sender is prompted while the table also holds the
\* rows of the other sender.
C6_Witness ==
    /\ pc = "store_reply"
    /\ \E i \in 1..Len(messages) : messages[i].session_id # Msg.from
    /\ Len(loc.chat_history) = 1
    /\ loc.chat_history[1].session_id = Msg.from
    /\ Len(loc.prompt) = 3

IsPrefix(s, t) == Len(s) <= Len(t) /\ \A i \in 1..Len(s) : s[i] = t[i]
NoMalformed(msgs) == \A i \in 1..Len(msgs) : ~IsMalformed(msgs[i])

RECURSIVE ExpectedHandled(_, _)
\* An acknowledgment attempt, then a processing attempt, for every text
\* message of the payload from position i on, in payload order.
ExpectedHandled(msgs, i) ==
    IF i > Len(msgs) THEN <<>>
    ELSE (IF msgs[i].type = "text" /\ ~IsMalformed(msgs[i])
          THEN <<[at |-> i, op |-> "ack"], [at |-> i, op |-> "process"]>>
          ELSE <<>>) \o ExpectedHandled(msgs, i + 1)

\* C7: the messages of one webhook POST are handled one after another in
\* payload order, and no failure while acknowledging, processing or replying
\* to a message keeps the later ones from being handled: every text message
\* gets its acknowledgment attempt and its processing attempt, and the POST
\* answers 200 {"status": "success"}.
C7_EveryMessageHandled ==
    (req.kind = "POST /whatsapp" /\ req.json = "whatsapp_business_account") =>
        /\ IsPrefix(handled, ExpectedHandled(req.messages, 1))
        /\ (pc = "done" /\ NoMalformed(req.messages)) =>
              /\ handled = ExpectedHandled(req.messages, 1)
              /\ resp = Response(200, "status success")

\* Two text messages in one POST; the processing of both failed before a
\* row was stored, both were acknowledged and processed, the POST answers 200.
C7_Witness ==
    /\ pc = "done"
    /\ req.kind = "POST /whatsapp"
    /\ Len(req.messages) = 2
    /\ \A i \in 1..2 : req.messages[i].type = "text" /\ ~IsMalformed(req.messages[i])
    /\ messages = <<>>
    /\ Len(handled) = 4
    /\ HasFailed(cur, "ack")
    /\ resp.status = 200

SendOps == {"ack", "send_reply", "apology"}
Sends == SelectSeq(cur, LAMBDA e : e.op \in SendOps)
SendRank(op) == CASE op = "ack" -> 1 [] op = "send_reply" -> 2 [] op = "apology" -> 3
SendText(op) ==
    CASE op = "ack" -> AckText [] op = "send_reply" -> AiText [] op = "apology" -> ApologyText

\* C8: for a text message the webhook first makes exactly one acknowledgment
\* attempt; it sends the AI reply only if process_message returned one; it
\* attempts the apology exactly when process_message or the reply send
\* raised; a reply that was sent is never followed by an apology; at most
\* three sends are attempted; a non-text message causes no send and no row.
C8_SendDiscipline ==
    /\ InChat =>
        /\ pc # "ack" => (cur # <<>> /\ cur[1].op = "ack")
        /\ pc = "ack" => cur = <<>>
        /\ \A i, j \in 1..Len(Sends) : i < j => SendRank(Sends[i].op) < SendRank(Sends[j].op)
        /\ Len(Sends) <= 3
        /\ Has(cur, "send_reply") => (HasOk(cur, "insert_assistant") /\ ~Failed(ProcTrace))
        /\ Has(cur, "apology") => (Failed(ProcTrace) \/ HasFailed(cur, "send_reply"))
        /\ (Failed(ProcTrace) \/ HasFailed(cur, "send_reply"))
              => (Has(cur, "apology") \/ pc = "except_rag")
        /\ ~(HasOk(cur, "send_reply") /\ Has(cur, "apology"))
        /\ (~Failed(ProcTrace) /\ pc \in {"next_msg", "done"}) => Has(cur, "send_reply")
    /\ InMessage =>
        /\ Len(outbox) >= Len(Sends)
        /\ \A i \in 1..Len(Sends) :
              outbox[Len(outbox) - Len(Sends) + i]
                  = [to |-> Msg.from, text |-> SendText(Sends[i].op)]
    /\ Len(outbox) <= 3 * Len(inbox)
    /\ Len(messages) <= 2 * Len(inbox)
    /\ \A n \in Senders :
          SendsTo(n, AckText)
              = DeliveriesFrom(n) - (IF pc = "ack" /\ Msg.from = n THEN 1 ELSE 0)

\* The reply was produced but its send raised: acknowledgment, reply and
\* apology were attempted, three sends in all.
C8_Witness ==
    /\ pc = "next_msg"
    /\ HasFailed(cur, "send_reply")
    /\ Has(cur, "apology")
    /\ Len(Sends) = 3
    /\ HasOk(cur, "insert_assistant")

\* The file names of FileNames whose extension, whatever its case, is one of
\* txt, pdf, doc, docx, csv.
HasAllowedExtension(name) ==
    name \in {<<"a", ".", "p", "d", "f">>, <<"B", ".", "T", "X", "T">>}
ExpectedNames(files) == SelectSeq(files, HasAllowedExtension)
Names(entries) == [i \in 1..Len(entries) |-> entries[i].name]

DeleteOrder == <<"select_doc", "delete_vectors", "delete_doc">>

C10_States ==
    req.kind = "DELETE /files" =>
        /\ Len(cur) <= Len(DeleteOrder)
        /\ \A i \in 1..Len(cur) : cur[i].op = DeleteOrder[i]
        /\ \A i \in 1..(Len(cur) - 1) : cur[i].ok
        /\ Has(cur, "delete_doc") => HasOk(cur, "delete_vectors")
        /\ pc = "del_row" => Range(loc.docs[1].vector_ids) \cap index = {}
        /\ (pc = "done" /\ resp.status = 404) =>
              /\ cur = <<[op |-> "select_doc", ok |-> TRUE]>>
              /\ DocsWithId(documents, req.file_id) = <<>>
        /\ (pc = "done" /\ cur = <<[op |-> "select_doc", ok |-> TRUE]>>) =>
              resp.status = 404
        /\ (pc = "done" /\ resp.status = 200) =>
              /\ \A i \in 1..Len(documents) : documents[i].id # req.file_id
              /\ Range(loc.docs[1].vector_ids) \cap index = {}
              /\ loc.docs[1].id = req.file_id
              /\ cur = <<[op |-> "select_doc", ok |-> TRUE],
                         [op |-> "delete_vectors", ok |-> TRUE],
                         [op |-> "delete_doc", ok |-> TRUE]>>
        /\ (pc = "done" /\ req.again) =>
              /\ resp.status # 200
              /\ cur[1].ok => resp.status = 404

\* C10: a DELETE whose lookup finds no row answers 404 and changes neither
\* the index nor the documents table; otherwise the vectors are deleted from
\* the index before the row is deleted, and after a 200 neither the row nor
\* a vector id it listed exists; a second DELETE of an id already deleted
\* answers 404.
C10_Delete ==
    /\ []C10_States
    /\ [][(pc = "del_lookup" /\ DocsWithId(documents, req.file_id) = <<>>)
              => /\ documents' = documents
                 /\ index' = index
                 /\ pc' = "done"
                 /\ resp'.status = IF Failed(cur') THEN 500 ELSE 404]_vars
    /\ [][(documents' # documents /\ req.kind = "DELETE /files")
              => (HasOk(cur, "delete_vectors") /\ index' = index)]_vars

\* The document was deleted with a 200, and the DELETE is repeated: 404.
C10_Witness ==
    /\ pc = "done"
    /\ req.kind = "DELETE /files"
    /\ req.again
    /\ resp.status = 404

\* The vector ids listed by the rows of the documents table.
ListedVectorIds == UNION {Range(documents[i].vector_ids) : i \in 1..Len(documents)}
\* No request is being handled: every request so far has completed.
Completed == pc \in {"idle", "done"}

PromptSent == InMessage /\ Has(cur, "llm") /\ ~Has(cur, "insert_assistant")
\* The row stored for the inbound message that is being answered.
OwnRow == UserRow(Msg.from, Msg.body, Len(messages))
\* The user turns of the prompt that carry the inbound message itself: the
\* final turn, and every turn built from the row stored for it.
InboundTurns == 1 + CountIn(loc.chat_history, LAMBDA r : r = OwnRow)

\* C12: the prompt posted to the LLM is one system message with the retrieved
\* context, then the 10 most recent stored messages of the sender's session
\* (fewer if there are fewer) in ascending timestamp order, then the inbound
\* message as the final user turn, and the inbound message is a user turn of
\* that prompt exactly once.
C12_PromptOnce ==
    PromptSent =>
        LET p == loc.prompt
            session == SelectSeq(messages, LAMBDA r : r.session_id = Msg.from)
            recent == Reversed(Limit(OrderDesc(session), HistoryLimit))
        IN /\ Len(p) = Len(recent) + 2
           /\ Len(recent) <= HistoryLimit
           /\ p[1] = [role |-> "system", content |-> "context"]
           /\ \A i \in 1..Len(recent) :
                  /\ p[i + 1] = [role |-> recent[i].role, content |-> recent[i].content]
                  /\ i > 1 => recent[i - 1].timestamp < recent[i].timestamp
           /\ p[Len(p)] = [role |-> "user", content |-> Msg.body]
           /\ InboundTurns = 1

\* The rows of session n among the first k rows of the messages table.
SessionPrefix(n, k) == SelectSeq(SubSeq(messages, 1, k), LAMBDA r : r.session_id = n)

C13_States ==
    /\ \A n \in Senders :
          \A k \in 0..Len(messages) :
              CountIn(SessionPrefix(n, k), LAMBDA r : r.role = "assistant")
                  <= CountIn(SessionPrefix(n, k), LAMBDA r : r.role = "user")
    /\ \A j \in 1..Len(messages) :
          messages[j].role = "assistant" =>
              LET before == SessionPrefix(messages[j].session_id, j - 1)
              IN /\ before # <<>>
                 /\ Last(before).role = "user"
                 /\ Last(before).timestamp < messages[j].timestamp
    /\ (InMessage /\ HasOk(cur, "insert_user") /\ Failed(ProcTrace)) =>
          /\ Last(messages) = UserRow(Msg.from, Msg.body, Len(messages))
          /\ ~HasOk(cur, "insert_assistant")

\* C13: in every state of the messages table, whatever external calls
\* failed, each session has at most as many assistant rows as user rows and
\* every assistant row follows the user row of the message it answers; rows
\* are never removed or changed, and a step of process_message that fails
\* after the user row was stored leaves that row and adds no assistant row,
\* neither when it fails nor while the failed message is still handled.
C13_NoRollback ==
    /\ []C13_States
    /\ [][IsPrefix(messages, messages')]_vars
    /\ [][(InMessage /\ Failed(ProcTrace')) => messages' = messages]_vars

\* The second message of a session: its user row is stored, the LLM call
\* fails, and the row stays as the last row, after the first message's
\* user and assistant rows.
C13_Witness ==
    /\ pc = "except_rag"
    /\ HasOk(cur, "insert_user")
    /\ HasFailed(cur, "llm")
    /\ Len(messages) = 3
    /\ messages[2].role = "assistant"
    /\ messages[3] = UserRow(Msg.from, Msg.body, 3)
    /\ messages[2].session_id = Msg.from

====
